---- MODULE Spec2Model ----
(***************************************************************************)
(* Model of the ISS pass predictor screen (src/App.tsx): the component     *)
(* state held in useState cells, the two asynchronous handlers fetchPasses *)
(* and getUserLocation split at their await points, the text handlers and  *)
(* the enabling condition of the Predict control.                          *)
(*                                                                         *)
(* Text is modelled as a sequence of one-character strings so that         *)
(* toFixed(4), substring tests and numeric range tests are computed.       *)
(* Device coordinates are integers in units of 10^-5 degree.               *)
(***************************************************************************)
EXTENDS Integers, Sequences, FiniteSets, TLC

VARIABLES location, passes, loading, pending, awaitingPermission,
          awaitingPosition, alert, event

vars == <<location, passes, loading, pending, awaitingPermission,
          awaitingPosition, alert, event>>

\* ------------------------------------------------------------------ bounds
\* Largest number of getUserLocation calls in flight at once.
MaxLookups == 2
\* Largest number of fetchPasses calls in flight at once.
MaxPending == 2
\* Largest pass duration, in seconds, of the rendering specification.
MaxDuration == 150

\* ------------------------------------------------------------ text values
EmptyText == <<>>
SatelliteIss == <<"2", "5", "5", "4", "4">>
MsgEnterCoordinates == <<"P", "l", "e", "a", "s", "e", " ", "e", "n", "t", "e", "r", " ", "l", "o", "c", "a", "t", "i", "o", "n", " ", "c", "o", "o", "r", "d", "i", "n", "a", "t", "e", "s">>
MsgFailedFetch == <<"F", "a", "i", "l", "e", "d", " ", "t", "o", " ", "f", "e", "t", "c", "h", " ", "s", "a", "t", "e", "l", "l", "i", "t", "e", " ", "p", "a", "s", "s", "e", "s">>
MsgPermissionRequired == <<"L", "o", "c", "a", "t", "i", "o", "n", " ", "p", "e", "r", "m", "i", "s", "s", "i", "o", "n", " ", "i", "s", " ", "r", "e", "q", "u", "i", "r", "e", "d">>
MsgFailedLocation == <<"F", "a", "i", "l", "e", "d", " ", "t", "o", " ", "g", "e", "t", " ", "l", "o", "c", "a", "t", "i", "o", "n">>

\* Alert.alert(title, message); NoAlert when a handler step raises none.
Alert(title, message) == [title |-> title, message |-> message]
NoAlert == Alert("", <<>>)
AlertEnterCoordinates == Alert("Error", MsgEnterCoordinates)
AlertFailedFetch == Alert("Error", MsgFailedFetch)
AlertPermissionDenied == Alert("Permission denied", MsgPermissionRequired)
AlertFailedLocation == Alert("Error", MsgFailedLocation)

\* The event the latest handler step ran for: its name, and for the device
\* capability calls and response.json() the value they resolved with.
NoData == [kind |-> "none", items |-> <<>>]
Event(name) == [name |-> name, status |-> "", coords |-> <<>>, data |-> NoData]
PermissionEvent(status) == [name |-> "permissionResolve", status |-> status, coords |-> <<>>, data |-> NoData]
PositionEvent(pos) == [name |-> "positionResolve", status |-> "", coords |-> pos, data |-> NoData]
JsonEvent(data) == [name |-> "jsonResolve", status |-> "", coords |-> <<>>, data |-> data]

\* ------------------------------------------------------- environment inputs
\* Texts a user types into a coordinate field.
EditTexts == {EmptyText, <<"9", "1">>, <<"4", "5">>}
\* Positions the device reports, <<latitude, longitude>> in 10^-5 degree.
Positions == {<<3777490, -12241940>>, <<-3, 8999965>>}
\* Outcomes of requestForegroundPermissionsAsync.
PermissionStatuses == {"granted", "denied", "undetermined"}
\* HTTP statuses of responses from the pass endpoint.
HttpStatuses == {200, 500}

Pass1 == [startTime |-> "2024-12-04 00:15:56", endTime |-> "2024-12-04 00:22:56", maxElevation |-> 77, duration |-> 420, azimuthStart |-> 230, azimuthEnd |-> 50]
Pass2 == [startTime |-> "2024-12-04 01:52:10", endTime |-> "2024-12-04 01:57:49", maxElevation |-> 12, duration |-> 339, azimuthStart |-> 280, azimuthEnd |-> 10]

\* Decoded JSON values: an array of items, or a non-array object.
JsonArray(items) == [kind |-> "array", items |-> items]
JsonObject == [kind |-> "object", items |-> <<>>]
\* Values response.json() resolves with.
Bodies == {JsonArray(<<>>), JsonArray(<<Pass2, Pass1>>), JsonObject}

\* -------------------------------------------------------- Number.toFixed(4)
DigitChar(d) == <<"0", "1", "2", "3", "4", "5", "6", "7", "8", "9">>[d + 1]

RECURSIVE Digits(_)
Digits(n) == IF n < 10 THEN <<DigitChar(n)>> ELSE Digits(n \div 10) \o <<DigitChar(n % 10)>>

Abs(x) == IF x < 0 THEN -x ELSE x

\* Integers n with n / 10^4 nearest to m / 10^5.  A decimal tie is not in
\* general a tie of the binary double, which lies on either side of it.
Nearest(m) == IF m % 10 < 5 THEN {m \div 10} ELSE IF m % 10 > 5 THEN {m \div 10 + 1} ELSE {m \div 10, m \div 10 + 1}

FormatFixed4(negative, n) == (IF negative THEN <<"-">> ELSE <<>>) \o Digits(n \div 10000) \o <<".", DigitChar((n \div 1000) % 10), DigitChar((n \div 100) % 10), DigitChar((n \div 10) % 10), DigitChar(n % 10)>>

\* The texts x.toFixed(4) can yield for x = v / 10^5.
toFixed4(v) == {FormatFixed4(v < 0, n) : n \in Nearest(Abs(v))}

\* --------------------------------------------------------------- the screen
\* !text for a string: only the empty string is falsy.
Falsy(text) == Len(text) = 0

\* The disabled prop without its empty-field terms.
PredictDisabledOnlyLoading == loading

\* The disabled prop without its loading term.
PredictDisabledIgnoresLoading == Falsy(location.lat) \/ Falsy(location.lng)

\* disabled prop of the Predict Passes control.
PredictDisabled == Falsy(location.lat) \/ Falsy(location.lng) \/ loading

\* A body with the two coordinates exchanged.
RequestBodySwapped == [satelliteId |-> SatelliteIss, lat |-> location.lng, lng |-> location.lat]

\* Body of the POST request built by fetchPasses.
RequestBody == [satelliteId |-> SatelliteIss, lat |-> location.lat, lng |-> location.lng]

RemoveAt(s, i) == SubSeq(s, 1, i - 1) \o SubSeq(s, i + 1, Len(s))

\* ----------------------------------------------------------------- render
\* Math.floor(seconds / 60)
MathFloorDiv60(seconds) == seconds \div 60

\* Math.round(seconds / 60) for a non-negative integer: a half rounds up.
MathRoundDiv60(seconds) == (seconds + 30) \div 60

TextMinutes == <<" ", "m", "i", "n", "u", "t", "e", "s">>
TextDegree == <<"°">>

\* {Math.round(pass.duration / 60)} minutes
DurationText(pass) == Digits(MathRoundDiv60(pass.duration)) \o TextMinutes

\* {pass.maxElevation}°
ElevationText(pass) == Digits(pass.maxElevation) \o TextDegree

\* The elevation and duration texts of one pass card (the localized rise
\* and set times are not modelled).
PassCard(pass) == [elevation |-> ElevationText(pass), duration |-> DurationText(pass)]

\* loading ? <ActivityIndicator/> : passes.map(...)
RenderedCards == IF loading THEN <<>> ELSE [i \in 1..Len(passes.items) |-> PassCard(passes.items[i])]

\* passes.map is called on a value that is not an array.
RenderThrows == ~loading /\ passes.kind # "array"

Init ==
    /\ location = [lat |-> EmptyText, lng |-> EmptyText]
    /\ passes = JsonArray(<<>>)
    /\ loading = FALSE
    /\ pending = <<>>
    /\ awaitingPermission = 0
    /\ awaitingPosition = 0
    /\ alert = NoAlert
    /\ event = Event("mount")

\* An update that does not spread the previous value: the other field is lost.
handleLocationChangeNoSpread(field, text) == location' = [[lat |-> EmptyText, lng |-> EmptyText] EXCEPT ![field] = text]

\* handleLocationChange(field)(text)
handleLocationChange(field, text) == location' = [location EXCEPT ![field] = text]

ChangeText(field, text) ==
    /\ handleLocationChange(field, text)
    /\ alert' = NoAlert
    /\ event' = Event("changeText")
    /\ UNCHANGED <<passes, loading, pending, awaitingPermission, awaitingPosition>>

\* fetchPasses without setLoading(true).
fetchPassesNoLoading ==
    IF Falsy(location.lat) \/ Falsy(location.lng)
    THEN /\ alert' = AlertEnterCoordinates
         /\ UNCHANGED <<location, passes, loading, pending, awaitingPermission, awaitingPosition>>
    ELSE /\ pending' = Append(pending, [body |-> RequestBody, stage |-> "fetch", status |-> 0])
         /\ alert' = NoAlert
         /\ UNCHANGED <<location, passes, loading, awaitingPermission, awaitingPosition>>

\* fetchPasses with a guard that returns only when both fields are empty.
fetchPassesGuardBoth ==
    IF Falsy(location.lat) /\ Falsy(location.lng)
    THEN /\ alert' = AlertEnterCoordinates
         /\ UNCHANGED <<location, passes, loading, pending, awaitingPermission, awaitingPosition>>
    ELSE /\ loading' = TRUE
         /\ pending' = Append(pending, [body |-> RequestBody, stage |-> "fetch", status |-> 0])
         /\ alert' = NoAlert
         /\ UNCHANGED <<location, passes, awaitingPermission, awaitingPosition>>

\* fetchPasses up to its first await: the guard, setLoading(true), fetch(...).
fetchPasses ==
    IF Falsy(location.lat) \/ Falsy(location.lng)
    THEN /\ alert' = AlertEnterCoordinates
         /\ UNCHANGED <<location, passes, loading, pending, awaitingPermission, awaitingPosition>>
    ELSE /\ loading' = TRUE
         /\ pending' = Append(pending, [body |-> RequestBody, stage |-> "fetch", status |-> 0])
         /\ alert' = NoAlert
         /\ UNCHANGED <<location, passes, awaitingPermission, awaitingPosition>>

\* A press on Predict Passes: onPress runs unless the control is disabled.
PressPredict ==
    /\ Len(pending) < MaxPending
    /\ event' = Event("pressPredict")
    /\ IF PredictDisabled
       THEN /\ alert' = NoAlert
            /\ UNCHANGED <<location, passes, loading, pending, awaitingPermission, awaitingPosition>>
       ELSE fetchPasses

\* A catch block that also clears the passes.
FetchCatchClearsPasses(i) ==
    /\ alert' = AlertFailedFetch
    /\ loading' = FALSE
    /\ passes' = JsonArray(<<>>)
    /\ pending' = RemoveAt(pending, i)
    /\ UNCHANGED <<location, awaitingPermission, awaitingPosition>>

\* setLoading(false) inside the try block: skipped when the catch block runs.
FetchCatchKeepsLoading(i) ==
    /\ alert' = AlertFailedFetch
    /\ pending' = RemoveAt(pending, i)
    /\ UNCHANGED <<location, passes, loading, awaitingPermission, awaitingPosition>>

\* catch block of fetchPasses, then setLoading(false).
FetchCatch(i) ==
    /\ alert' = AlertFailedFetch
    /\ loading' = FALSE
    /\ pending' = RemoveAt(pending, i)
    /\ UNCHANGED <<location, passes, awaitingPermission, awaitingPosition>>

\* await fetch(...) resolves with a response of the given status.
FetchResolve(i, status) ==
    /\ pending[i].stage = "fetch"
    /\ pending' = [pending EXCEPT ![i].stage = "json", ![i].status = status]
    /\ alert' = NoAlert
    /\ event' = Event("fetchResolve")
    /\ UNCHANGED <<location, passes, loading, awaitingPermission, awaitingPosition>>

\* await fetch(...) rejects.
FetchReject(i) ==
    /\ pending[i].stage = "fetch"
    /\ FetchCatch(i)
    /\ event' = Event("fetchReject")

\* setPasses(data) with the passes re-ordered by start time.
setPassesSorted(data) == passes' = IF data = JsonArray(<<Pass2, Pass1>>) THEN JsonArray(<<Pass1, Pass2>>) ELSE data

\* setPasses(data)
setPasses(data) == passes' = data

\* await response.json() resolves: setPasses(data), setLoading(false).
JsonResolve(i, data) ==
    /\ pending[i].stage = "json"
    /\ setPasses(data)
    /\ loading' = FALSE
    /\ pending' = RemoveAt(pending, i)
    /\ alert' = NoAlert
    /\ event' = JsonEvent(data)
    /\ UNCHANGED <<location, awaitingPermission, awaitingPosition>>

\* await response.json() rejects.
JsonReject(i) ==
    /\ pending[i].stage = "json"
    /\ FetchCatch(i)
    /\ event' = Event("jsonReject")

\* A catch block that swallows the failure without a notification.
LocationCatchSilent ==
    /\ alert' = NoAlert
    /\ UNCHANGED <<location, passes, loading, pending>>

\* A catch block that also ends the loading state of the pass request.
LocationCatchStopsLoading ==
    /\ alert' = AlertFailedLocation
    /\ loading' = FALSE
    /\ UNCHANGED <<location, passes, pending>>

\* catch block of getUserLocation.
LocationCatch ==
    /\ alert' = AlertFailedLocation
    /\ UNCHANGED <<location, passes, loading, pending>>

\* A press on Get My Location: getUserLocation up to its first await.
PressGetLocation ==
    /\ awaitingPermission + awaitingPosition < MaxLookups
    /\ awaitingPermission' = awaitingPermission + 1
    /\ alert' = NoAlert
    /\ event' = Event("pressGetLocation")
    /\ UNCHANGED <<location, passes, loading, pending, awaitingPosition>>

\* The refusal branch without its return: the position query is issued anyway.
permissionOutcomeNoReturn(status) ==
    /\ alert' = IF status # "granted" THEN AlertPermissionDenied ELSE NoAlert
    /\ awaitingPosition' = awaitingPosition + 1

\* if (status !== 'granted') { Alert.alert(...); return; } else the position
\* query is issued.
permissionOutcome(status) ==
    IF status # "granted"
    THEN /\ alert' = AlertPermissionDenied
         /\ UNCHANGED awaitingPosition
    ELSE /\ alert' = NoAlert
         /\ awaitingPosition' = awaitingPosition + 1

\* await requestForegroundPermissionsAsync() resolves.
PermissionResolve(status) ==
    /\ awaitingPermission > 0
    /\ awaitingPermission' = awaitingPermission - 1
    /\ event' = PermissionEvent(status)
    /\ permissionOutcome(status)
    /\ UNCHANGED <<location, passes, loading, pending>>

\* await requestForegroundPermissionsAsync() rejects.
PermissionReject ==
    /\ awaitingPermission > 0
    /\ awaitingPermission' = awaitingPermission - 1
    /\ LocationCatch
    /\ event' = Event("permissionReject")
    /\ UNCHANGED awaitingPosition

\* An update of the latitude field alone.
setLocationLatOnly(lat, lng) == location' = [location EXCEPT !.lat = lat]

\* setLocation({lat: latitude.toFixed(4), lng: longitude.toFixed(4)})
setLocationFromCoords(lat, lng) == location' = [lat |-> lat, lng |-> lng]

\* await getCurrentPositionAsync({}) resolves.
PositionResolve(pos) ==
    /\ awaitingPosition > 0
    /\ awaitingPosition' = awaitingPosition - 1
    /\ \E lat \in toFixed4(pos[1]), lng \in toFixed4(pos[2]) : setLocationFromCoords(lat, lng)
    /\ alert' = NoAlert
    /\ event' = PositionEvent(pos)
    /\ UNCHANGED <<passes, loading, pending, awaitingPermission>>

\* await getCurrentPositionAsync({}) rejects.
PositionReject ==
    /\ awaitingPosition > 0
    /\ awaitingPosition' = awaitingPosition - 1
    /\ LocationCatch
    /\ event' = Event("positionReject")
    /\ UNCHANGED awaitingPermission

Settle ==
    \E i \in DOMAIN pending :
        \/ \E status \in HttpStatuses : FetchResolve(i, status)
        \/ FetchReject(i)
        \/ \E data \in Bodies : JsonResolve(i, data)
        \/ JsonReject(i)

Next ==
    \/ \E field \in {"lat", "lng"}, text \in EditTexts : ChangeText(field, text)
    \/ PressPredict
    \/ \E i \in DOMAIN pending, status \in HttpStatuses : FetchResolve(i, status)
    \/ \E i \in DOMAIN pending : FetchReject(i)
    \/ \E i \in DOMAIN pending, data \in Bodies : JsonResolve(i, data)
    \/ \E i \in DOMAIN pending : JsonReject(i)
    \/ PressGetLocation
    \/ \E status \in PermissionStatuses : PermissionResolve(status)
    \/ PermissionReject
    \/ \E pos \in Positions : PositionResolve(pos)
    \/ PositionReject

Spec == Init /\ [][Next]_vars

\* Settlement of the promises fetchPasses awaits; the runtime settles them.
SpecFair == Spec /\ WF_vars(Settle)

\* fetchPasses called as a function, whatever the state of the control
\* that is bound to it.
CallFetchPasses ==
    /\ Len(pending) < MaxPending
    /\ event' = Event("fetchPasses")
    /\ fetchPasses

NextHandler ==
    \/ \E field \in {"lat", "lng"}, text \in EditTexts : ChangeText(field, text)
    \/ CallFetchPasses
    \/ \E i \in DOMAIN pending, status \in HttpStatuses : FetchResolve(i, status)
    \/ \E i \in DOMAIN pending : FetchReject(i)
    \/ \E i \in DOMAIN pending, data \in Bodies : JsonResolve(i, data)
    \/ \E i \in DOMAIN pending : JsonReject(i)

SpecHandler == Init /\ [][NextHandler]_vars

\* The screen showing one pass of any duration and elevation, as left by a
\* decoded response, with the coordinate fields still editable.
RenderDurations == 0..MaxDuration \cup {Pass1.duration, Pass2.duration}
RenderElevations == {0, 9, 12, 77, 90}

InitRender ==
    /\ location = [lat |-> <<"4", "5">>, lng |-> <<"4", "5">>]
    /\ \E d \in RenderDurations, e \in RenderElevations : passes = JsonArray(<<[Pass1 EXCEPT !.duration = d, !.maxElevation = e]>>)
    /\ loading = FALSE
    /\ pending = <<>>
    /\ awaitingPermission = 0
    /\ awaitingPosition = 0
    /\ alert = NoAlert
    /\ event = JsonEvent(passes)

NextRender == \E field \in {"lat", "lng"}, text \in EditTexts : ChangeText(field, text)

SpecRender == InitRender /\ [][NextRender]_vars

\* ------------------------------------------- vocabulary of the properties
\* text contains sub as a contiguous substring.
Contains(text, sub) == \E k \in 0..(Len(text) - Len(sub)) : SubSeq(text, k + 1, k + Len(sub)) = sub

IsDigit(c) == \E d \in 0..9 : DigitChar(d) = c
DigitValue(c) == CHOOSE d \in 0..9 : DigitChar(d) = c
AllDigits(s) == \A k \in DOMAIN s : IsDigit(s[k])

RECURSIVE NatValue(_)
NatValue(s) == IF Len(s) = 0 THEN 0 ELSE 10 * NatValue(SubSeq(s, 1, Len(s) - 1)) + DigitValue(s[Len(s)])

Unsigned(text) == IF Len(text) > 0 /\ text[1] = "-" THEN Tail(text) ELSE text
DotAt(s) == IF \E k \in DOMAIN s : s[k] = "." THEN CHOOSE k \in DOMAIN s : s[k] = "." /\ \A j \in 1..(k - 1) : s[j] # "." ELSE 0
IntPart(s) == IF DotAt(s) = 0 THEN s ELSE SubSeq(s, 1, DotAt(s) - 1)
FracPart(s) == IF DotAt(s) = 0 THEN <<>> ELSE SubSeq(s, DotAt(s) + 1, Len(s))

\* text is a decimal numeral with at most four fraction digits.
IsNumeric(text) == Len(IntPart(Unsigned(text))) > 0 /\ AllDigits(IntPart(Unsigned(text))) /\ AllDigits(FracPart(Unsigned(text))) /\ Len(FracPart(Unsigned(text))) <= 4

\* Value of a numeral, in units of 10^-4.
NumericValue(text) == (IF Unsigned(text) # text THEN -1 ELSE 1) * (10000 * NatValue(IntPart(Unsigned(text))) + NatValue(FracPart(Unsigned(text)) \o [k \in 1..(4 - Len(FracPart(Unsigned(text)))) |-> "0"]))

LatitudeOutOfRange(text) == IsNumeric(text) /\ (NumericValue(text) < -900000 \/ NumericValue(text) > 900000)
LongitudeOutOfRange(text) == IsNumeric(text) /\ (NumericValue(text) < -1800000 \/ NumericValue(text) > 1800000)

Text91 == <<"9", "1">>
MsgInvalidCoordinates == <<"I", "n", "v", "a", "l", "i", "d", " ", "c", "o", "o", "r", "d", "i", "n", "a", "t", "e", "s">>
MsgFailedToFetchPasses == <<"F", "a", "i", "l", "e", "d", " ", "t", "o", " ", "f", "e", "t", "c", "h", " ", "p", "a", "s", "s", "e", "s">>

InFlightLookups == awaitingPermission + awaitingPosition
NonSuccessStatus(status) == status < 200 \/ status > 299

\* ------------------------------------------------------------------ claims

\* C1: no request is ever issued for a coordinate pair whose latitude is
\* outside [-90, 90] or whose longitude is outside [-180, 180]; in
\* particular none is issued with latitude "91".
C1_NoRequestOutOfRange == \A i \in DOMAIN pending : ~LatitudeOutOfRange(pending[i].body.lat) /\ ~LongitudeOutOfRange(pending[i].body.lng)

\* C2: at most one prediction request is outstanding in every reachable
\* state, and a Predict press that arrives while one is pending issues none.
C2_AtMostOneRequest == [](Len(pending) <= 1) /\ [][(Len(pending) > 0 /\ event' = Event("pressPredict")) => pending' = pending]_vars

\* C2 witness: Predict was pressed while a request was awaiting its body, and
\* that request is still the only one.
C2_Witness == event = Event("pressPredict") /\ Len(pending) = 1 /\ pending[1].stage = "json"

\* C3: at most one device-location lookup (permission prompt or position
\* query) is in flight in every reachable state.
C3_AtMostOneLookup == InFlightLookups <= 1

\* C4: a request whose response has a non-2xx status ends with the
\* 'Failed to fetch' notification and its body is not stored as the passes.
C4_NonSuccessIsFetchError == [][\A i \in DOMAIN pending : (pending[i].stage = "json" /\ NonSuccessStatus(pending[i].status) /\ pending' = RemoveAt(pending, i)) => (alert' = AlertFailedFetch /\ passes' = passes)]_vars

\* C5 (as stated): whenever a request is in flight, and right after a
\* request has failed, a stored pass sequence is the empty one.
C5_PassesResetOnBeginAndFailure == ((Len(pending) > 0 \/ event \in {Event("fetchReject"), Event("jsonReject")}) /\ passes.kind = "array") => passes = JsonArray(<<>>)

\* C5 (amended): beginning a request and a failing request leave the stored
\* passes as they were; the passes change only in the step in which a
\* response body decodes, and then become that decoded body as a whole.
C5_PassesKeptUntilDecoded == [][(event' \in {Event("pressPredict"), Event("fetchResolve"), Event("fetchReject"), Event("jsonReject")} => passes' = passes) /\ (passes' # passes => (event'.name = "jsonResolve" /\ passes' \in Bodies /\ \E i \in DOMAIN pending : pending[i].stage = "json" /\ pending' = RemoveAt(pending, i)))]_vars

\* C5 witness: a request has just failed and the passes of an earlier
\* response are still stored.
C5_Witness == event \in {Event("fetchReject"), Event("jsonReject")} /\ alert = AlertFailedFetch /\ passes = JsonArray(<<Pass2, Pass1>>)

\* C6: a rejected fetch or body decode raises a notification titled 'Error'
\* whose message contains "Failed to fetch passes".
C6_FailureMessageContains == event \in {Event("fetchReject"), Event("jsonReject")} => (alert.title = "Error" /\ Contains(alert.message, MsgFailedToFetchPasses))

C8_DenialLeavesCoordinates == [][(event' = PermissionEvent("denied") => (alert' = AlertPermissionDenied /\ awaitingPosition' = awaitingPosition /\ location' = location)) /\ (event' = Event("pressGetLocation") => location' = location)]_vars

\* C8 witness: permission has just been denied while both fields hold text.
C8_Witness == event = PermissionEvent("denied") /\ alert = AlertPermissionDenied /\ ~Falsy(location.lat) /\ ~Falsy(location.lng)

\* C9: with latitude "91", a Predict press raises a notification whose
\* message contains "Invalid coordinates" and issues no request.
C9_InvalidCoordinatesNotified == (event = Event("pressPredict") /\ location.lat = Text91) => (Contains(alert.message, MsgInvalidCoordinates) /\ pending = <<>>)

\* text is v / 10^5 rounded to four decimal places.
RoundedTo4(text, v) == IsNumeric(text) /\ Len(FracPart(Unsigned(text))) = 4 /\ Abs(10 * NumericValue(text) - v) <= 5 /\ (Unsigned(text) # text <=> v < 0)

SanFrancisco == <<3777490, -12241940>>

\* C10: when the position query resolves, both coordinate fields are set in
\* that one step to the reported latitude and longitude rounded to four
\* decimal places; (37.7749, -122.4194) yields "37.7749" and "-122.4194".
C10_LookupSetsBothFields == [][event'.name = "positionResolve" => (RoundedTo4(location'.lat, event'.coords[1]) /\ RoundedTo4(location'.lng, event'.coords[2]) /\ (event'.coords = SanFrancisco => location' = [lat |-> <<"3", "7", ".", "7", "7", "4", "9">>, lng |-> <<"-", "1", "2", "2", ".", "4", "1", "9", "4">>]))]_vars

\* C10 witness: the lookup has just resolved with (37.7749, -122.4194) and
\* both fields show it.
C10_Witness == event = PositionEvent(SanFrancisco) /\ location = [lat |-> <<"3", "7", ".", "7", "7", "4", "9">>, lng |-> <<"-", "1", "2", "2", ".", "4", "1", "9", "4">>]

\* C11: the stored passes are always a sequence of pass records, so that
\* rendering them never fails.
C11_PassesIsSequence == passes.kind = "array" /\ ~RenderThrows

\* C12: when a response body decodes to an array, the stored pass sequence
\* is that array, element for element in its order, and with loading false
\* as many cards are rendered as the array has elements.
C12_StoredAsDecoded == [][(event'.name = "jsonResolve" /\ event'.data.kind = "array") => (passes' = event'.data /\ ~loading' /\ Len(RenderedCards') = Len(event'.data.items) /\ \A k \in DOMAIN event'.data.items : passes'.items[k] = event'.data.items[k])]_vars

\* C12 witness: the two-pass response has just been decoded, is stored in
\* its order, and two cards are rendered.
C12_Witness == event = JsonEvent(JsonArray(<<Pass2, Pass1>>)) /\ passes.items = <<Pass2, Pass1>> /\ Len(RenderedCards) = 2

\* text is a numeral without sign, fraction or leading zero, followed by suffix.
IsNaturalWithSuffix(text, suffix) == Len(text) > Len(suffix) /\ SubSeq(text, Len(text) - Len(suffix) + 1, Len(text)) = suffix /\ AllDigits(SubSeq(text, 1, Len(text) - Len(suffix))) /\ (text[1] = "0" => Len(text) = Len(suffix) + 1)
NaturalBefore(text, suffix) == NatValue(SubSeq(text, 1, Len(text) - Len(suffix)))

LookupEvents == {"pressGetLocation", "permissionResolve", "permissionReject", "positionResolve", "positionReject"}
PredictionEvents == {"pressPredict", "fetchResolve", "fetchReject", "jsonResolve", "jsonReject"}
Text45 == <<"4", "5">>
Text25544 == <<"2", "5", "5", "4", "4">>

\* C15: when the permission request or the position query rejects, that
\* lookup ends with the notification ('Error', 'Failed to get location') and
\* both coordinate fields keep their values.
C15_LookupFailureNotified == [][event'.name \in {"permissionReject", "positionReject"} => (alert' = AlertFailedLocation /\ location' = location /\ InFlightLookups' = InFlightLookups - 1)]_vars

\* C15 witness: the position query has just rejected while both fields held
\* text; the notification is up.
C15_Witness == event = Event("positionReject") /\ alert = AlertFailedLocation /\ location = [lat |-> Text91, lng |-> Text45]

\* C16: an edit stores the entered text in one coordinate field, leaves the
\* other field, the passes and loading unchanged, raises no notification
\* and issues no request or lookup.
C16_EditTouchesOneField == [][event'.name = "changeText" => ((\E field \in {"lat", "lng"}, text \in EditTexts : location' = [location EXCEPT ![field] = text]) /\ passes' = passes /\ loading' = loading /\ pending' = pending /\ InFlightLookups' = InFlightLookups /\ alert' = NoAlert)]_vars

\* C16 witness: an out-of-range latitude was typed while a request was in
\* flight; it is stored as typed and the longitude is still there.
C16_Witness == event = Event("changeText") /\ location = [lat |-> Text91, lng |-> Text45] /\ loading /\ Len(pending) = 1 /\ pending[1].body.lat = Text45

\* C17: a Predict press on the enabled control issues exactly one request
\* whose body is satellite '25544' with the latitude and longitude texts of
\* that moment; no edit or lookup step issues a request, and a pending
\* request keeps its body.
C17_OneRequestPerTrigger == [][((event' = Event("pressPredict") /\ ~Falsy(location.lat) /\ ~Falsy(location.lng) /\ ~loading) => (Len(pending') = Len(pending) + 1 /\ SubSeq(pending', 1, Len(pending)) = pending /\ pending'[Len(pending')].body = [satelliteId |-> Text25544, lat |-> location.lat, lng |-> location.lng])) /\ ((event'.name \in LookupEvents \cup {"changeText"}) => pending' = pending) /\ ((event'.name = "fetchResolve") => (Len(pending') = Len(pending) /\ \A k \in DOMAIN pending : pending'[k].body = pending[k].body))]_vars

\* C17 witness: a lookup has overwritten the fields while a request issued
\* with the earlier texts is still pending with those texts.
C17_Witness == event.name = "positionResolve" /\ Len(pending) = 1 /\ pending[1].body = [satelliteId |-> Text25544, lat |-> Text91, lng |-> Text45] /\ location.lat # Text91

\* C18: loading is true exactly when one prediction request is outstanding,
\* and while it is true no pass card is rendered.
C18_LoadingIffOnePending == (loading <=> Len(pending) = 1) /\ (loading => RenderedCards = <<>>)

\* C18 witness: a request is outstanding while passes of an earlier response
\* are stored; none of them is rendered.
C18_Witness == loading /\ Len(pending) = 1 /\ passes = JsonArray(<<Pass2, Pass1>>) /\ RenderedCards = <<>>

C20_FlowsDisjoint == [][(event'.name \in LookupEvents => (passes' = passes /\ loading' = loading /\ pending' = pending)) /\ (event'.name \in PredictionEvents => (location' = location /\ awaitingPermission' = awaitingPermission /\ awaitingPosition' = awaitingPosition))]_vars

\* C20 witness: a lookup has just failed while a prediction request is in
\* flight; loading is still true.
C20_Witness == event = Event("permissionReject") /\ alert = AlertFailedLocation /\ loading /\ Len(pending) = 1 /\ awaitingPosition = 1

====
